---- MODULE Spec2Model ----
(***************************************************************************)
(* ForwardCommandControllerNewComponents                                   *)
(* (forward_command_controller_new_components.cpp).                        *)
(*                                                                         *)
(* The controller's members (joint_handles_, interfaces_, rt_command_ptr_, *)
(* joints_command_subscriber_, resource_manager_) are the state; each      *)
(* lifecycle callback, the subscription callback and update() is one       *)
(* action.  The resource manager and the realtime buffer are collaborators *)
(* whose code is outside the file: they are modelled by their contract.    *)
(***************************************************************************)
EXTENDS Integers, Sequences, FiniteSets, TLC

----------------------------------------------------------------------------
(* Bounds of the model *)

\* longest 'joints' parameter
MaxJoints == 2
\* longest command message
MaxMsgLen == 2
\* number of on_configure calls in one run (interfaces_ grows with each)
MaxConfigures == 2

----------------------------------------------------------------------------
(* Inputs *)

JointNames == {"j1", "j2", "j3"}
InterfaceNames == {"position", "velocity"}
Values == {10, 20}

\* sequences over S of length at most n
SeqUpTo(S, n) == UNION {[1..k -> S] : k \in 0..n}

\* a joint list names each joint once (spec.md, data model: JointName)
JointLists ==
  {s \in SeqUpTo(JointNames, MaxJoints) :
     \A i, j \in 1..Len(s) : i # j => s[i] # s[j]}

\* rclcpp::Parameter "joints": not set, or a string array (possibly empty)
JointsParams ==
  {[set |-> FALSE, value |-> <<>>]} \cup
  {[set |-> TRUE, value |-> s] : s \in JointLists}

\* rclcpp::Parameter "interface_name": not set, or a string (possibly empty)
InterfaceParams ==
  {[set |-> FALSE, value |-> ""]} \cup
  {[set |-> TRUE, value |-> s] : s \in InterfaceNames \cup {""}}

\* CmdType::SharedPtr: a null pointer, or a message with its data vector
NullMsg == [valid |-> FALSE, data |-> <<>>]
Messages == {[valid |-> TRUE, data |-> d] : d \in SeqUpTo(Values, MaxMsgLen)}

----------------------------------------------------------------------------
(* Log texts of the callbacks *)

JointsNotSetMsg == "'joints' parameter not set"
InterfaceNotSetMsg == "'interface_name' parameter not set"
JointsEmptyMsg == "'joints' is empty"
InterfaceEmptyMsg == "'interface_name' is empty"
NotRegisteredMsg == "joint not registered"
ClaimFailedMsg == "could not get handle for joint"
LockFailedMsg == "could not lock pointer to resource_manager"
ConfiguredMsg == "configure successful"
SizeMismatchMsg == "command size does not match number of joints"
NoLog == ""

----------------------------------------------------------------------------
(* Resource manager (collaborator, by its contract) *)

\* the command interfaces each joint of the robot registers; j3 is no joint
RegisteredInterfaces(joint) ==
  CASE joint = "j1" -> {"position", "velocity"}
    [] joint = "j2" -> {"velocity"}
    [] OTHER -> {}

\* check_command_interfaces(joint, interfaces) == return_type::OK
check_command_interfaces(joint, interfaces) ==
  \A k \in 1..Len(interfaces) : interfaces[k] \in RegisteredInterfaces(joint)

\* claim_command_handle(joint, interfaces, handle) == return_type::OK :
\* a claim is exclusive, `claimed` is the registry's set of claimed joints
claim_command_handle(joint, interfaces, claimed) ==
  /\ check_command_interfaces(joint, interfaces)
  /\ joint \notin claimed

\* the handle the registry hands out for a joint
JointHandle(joint) == [joint |-> joint]

----------------------------------------------------------------------------
(* State *)

VARIABLES
  \* the controller and what it talks to
  lifecycle,                   \* "unconfigured", "inactive" or "active"
  joint_handles_,              \* std::vector of claimed joint handles
  interfaces_,                 \* std::vector<std::string> of interface names
  rt_command_ptr_,             \* RealtimeBuffer<CmdType::SharedPtr>
  joints_command_subscriber_,  \* 0: nullptr, n: created by the n-th on_configure
  resource_manager_,           \* TRUE while the weak_ptr can be locked
  claimed,                     \* registry: the joints that are claimed
  \* history
  configures,                  \* number of on_configure calls so far
  joint_names,                 \* 'joints' of the last successful on_configure
  interface_name,              \* 'interface_name' of the last successful on_configure
  received,                    \* TRUE once a message was written to the mailbox
  last_written,                \* the message of the most recent write (M2)
  unread,                      \* writes since the last read: 0, 1, 2 (or more)
  overwritten,                 \* TRUE if the most recent write replaced an
                               \* unread message (M1) that differs from it
  mismatched,                  \* TRUE once an update() has returned ERROR
  \* the last call: its inputs, locals and results
  op,                          \* the entry point that ran
  ret,                         \* what it returned
  log_msg,                     \* what it logged
  joints_param,                \* on_configure: parameter "joints"
  interface_param,             \* on_configure: parameter "interface_name"
  rm_calls,                    \* on_configure: its registry calls, in order
  joint_commands,              \* update: what it read from the mailbox
  seen,                        \* update: unread and overwritten at that read
  set_command_calls,           \* update: its set_command calls, in order
  set_command_results          \* update: what each of them returned

vars ==
  <<lifecycle, joint_handles_, interfaces_, rt_command_ptr_,
    joints_command_subscriber_, resource_manager_, claimed, configures,
    joint_names, interface_name, received, last_written, unread,
    overwritten, mismatched, op, ret, log_msg,
    joints_param, interface_param, rm_calls, joint_commands, seen,
    set_command_calls, set_command_results>>

controller_vars ==
  <<joint_handles_, interfaces_, rt_command_ptr_, joints_command_subscriber_>>

registry_vars == <<resource_manager_, claimed>>

configured_vars == <<configures, joint_names, interface_name>>

mailbox_history == <<received, last_written, unread, overwritten>>

cycle_history == <<mismatched>>

NothingSeen == [unread |-> 0, overwritten |-> FALSE]

JointsNotSet == [set |-> FALSE, value |-> <<>>]
InterfaceNotSet == [set |-> FALSE, value |-> ""]

\* the record of a call that is no on_configure
NoConfigureCall ==
  /\ joints_param' = JointsNotSet
  /\ interface_param' = InterfaceNotSet
  /\ rm_calls' = <<>>

\* the record of a call that is no update
NoUpdateCall ==
  /\ joint_commands' = NullMsg
  /\ seen' = NothingSeen
  /\ set_command_calls' = <<>>
  /\ set_command_results' = <<>>

\* the constructor: no handle, a mailbox holding nullptr, no subscription
Init ==
  /\ lifecycle = "unconfigured"
  /\ joint_handles_ = <<>>
  /\ interfaces_ = <<>>
  /\ rt_command_ptr_ = NullMsg
  /\ joints_command_subscriber_ = 0
  /\ resource_manager_ = TRUE
  /\ claimed = {}
  /\ configures = 0
  /\ joint_names = <<>>
  /\ interface_name = ""
  /\ received = FALSE
  /\ last_written = NullMsg
  /\ unread = 0
  /\ overwritten = FALSE
  /\ mismatched = FALSE
  /\ op = "constructor"
  /\ ret = "NONE"
  /\ log_msg = NoLog
  /\ joints_param = JointsNotSet
  /\ interface_param = InterfaceNotSet
  /\ rm_calls = <<>>
  /\ joint_commands = NullMsg
  /\ seen = NothingSeen
  /\ set_command_calls = <<>>
  /\ set_command_results = <<>>

----------------------------------------------------------------------------
(* on_configure *)

\* a variant that lets an empty 'interface_name' through
ParameterError_EmptyInterfaceAccepted(jp, ip) ==
  IF ~jp.set THEN JointsNotSetMsg
  ELSE IF ~ip.set THEN InterfaceNotSetMsg
  ELSE IF jp.value = <<>> THEN JointsEmptyMsg
  ELSE NoLog

\* lines 45-72: the parameter checks, in the order of the code; NoLog when
\* both parameters are set and non-empty
ParameterError(jp, ip) ==
  IF ~jp.set THEN JointsNotSetMsg
  ELSE IF ~ip.set THEN InterfaceNotSetMsg
  ELSE IF jp.value = <<>> THEN JointsEmptyMsg
  ELSE IF ip.value = "" THEN InterfaceEmptyMsg
  ELSE NoLog

RmCall(call, joint, interfaces, ok) ==
  [call |-> call, joint |-> joint, interfaces |-> interfaces, ok |-> ok]

\* lines 78-87: the first loop; it stops at the first joint that is not
\* registered with every interface of interfaces_
RECURSIVE CheckLoop(_, _, _, _)
CheckLoop(names, interfaces, i, calls) ==
  IF i > Len(names) THEN [ok |-> TRUE, calls |-> calls]
  ELSE LET ok == check_command_interfaces(names[i], interfaces)
           log == Append(calls, RmCall("check", names[i], interfaces, ok))
       IN  IF ~ok THEN [ok |-> FALSE, calls |-> log]
           ELSE CheckLoop(names, interfaces, i + 1, log)

\* lines 90-105: the second loop; a handle is appended to joint_handles_ for
\* each claim that succeeds, and joint_handles_ is cleared at the first claim
\* that fails (nothing is unclaimed in the registry)
RECURSIVE ClaimLoop(_, _, _, _, _, _)
ClaimLoop(names, interfaces, i, handles, clm, calls) ==
  IF i > Len(names)
  THEN [ok |-> TRUE, handles |-> handles, claimed |-> clm, calls |-> calls]
  ELSE LET ok == claim_command_handle(names[i], interfaces, clm)
           log == Append(calls, RmCall("claim", names[i], interfaces, ok))
       IN  IF ~ok
           THEN [ok |-> FALSE, handles |-> <<>>, claimed |-> clm, calls |-> log]
           ELSE ClaimLoop(names, interfaces, i + 1,
                          Append(handles, JointHandle(names[i])),
                          clm \cup {names[i]}, log)

\* a variant with one loop that claims each joint right after checking it
RECURSIVE InterleavedLoop(_, _, _, _, _, _)
InterleavedLoop(names, interfaces, i, handles, clm, calls) ==
  IF i > Len(names)
  THEN [ok |-> TRUE, log |-> ConfiguredMsg, handles |-> handles,
        claimed |-> clm, calls |-> calls]
  ELSE LET chk == check_command_interfaces(names[i], interfaces)
           log1 == Append(calls, RmCall("check", names[i], interfaces, chk))
           got == claim_command_handle(names[i], interfaces, clm)
           log2 == Append(log1, RmCall("claim", names[i], interfaces, got))
       IN  IF ~chk
           THEN [ok |-> FALSE, log |-> NotRegisteredMsg, handles |-> handles,
                 claimed |-> clm, calls |-> log1]
           ELSE IF ~got
           THEN [ok |-> FALSE, log |-> ClaimFailedMsg, handles |-> <<>>,
                 claimed |-> clm, calls |-> log2]
           ELSE InterleavedLoop(names, interfaces, i + 1,
                                Append(handles, JointHandle(names[i])),
                                clm \cup {names[i]}, log2)

AcquireHandles_Interleaved(names, interfaces, handles, clm) ==
  InterleavedLoop(names, interfaces, 1, handles, clm, <<>>)

\* lines 76-105 with the resource manager locked: every check, then every claim
AcquireHandles(names, interfaces, handles, clm) ==
  LET chk == CheckLoop(names, interfaces, 1, <<>>)
  IN  IF ~chk.ok
      THEN [ok |-> FALSE, log |-> NotRegisteredMsg, handles |-> handles,
            claimed |-> clm, calls |-> chk.calls]
      ELSE LET c == ClaimLoop(names, interfaces, 1, handles, clm, chk.calls)
           IN  [ok |-> c.ok,
                log |-> IF c.ok THEN ConfiguredMsg ELSE ClaimFailedMsg,
                handles |-> c.handles, claimed |-> c.claimed, calls |-> c.calls]

\* line 74: interfaces_.push_back(interface_name)
PushInterface(interfaces, name) == Append(interfaces, name)

\* a variant that creates the subscription before it acquires the handles
ConfigureOutcome_SubscribesFirst(jp, ip, locked, handles, interfaces, clm, subscriber, n) ==
  LET err == ParameterError(jp, ip)
  IN  IF err # NoLog
      THEN [ret |-> "ERROR", log |-> err, handles |-> handles,
            interfaces |-> interfaces, claimed |-> clm,
            subscriber |-> subscriber, calls |-> <<>>]
      ELSE LET ifs == PushInterface(interfaces, ip.value)
           IN  IF ~locked
               THEN [ret |-> "ERROR", log |-> LockFailedMsg, handles |-> handles,
                     interfaces |-> ifs, claimed |-> clm,
                     subscriber |-> n, calls |-> <<>>]
               ELSE LET a == AcquireHandles(jp.value, ifs, handles, clm)
                    IN  [ret |-> IF a.ok THEN "SUCCESS" ELSE "ERROR",
                         log |-> a.log, handles |-> a.handles,
                         interfaces |-> ifs, claimed |-> a.claimed,
                         subscriber |-> n, calls |-> a.calls]

\* lines 42-124: the whole callback, as the values it leaves behind
ConfigureOutcome(jp, ip, locked, handles, interfaces, clm, subscriber, n) ==
  LET err == ParameterError(jp, ip)
  IN  IF err # NoLog
      THEN [ret |-> "ERROR", log |-> err, handles |-> handles,
            interfaces |-> interfaces, claimed |-> clm,
            subscriber |-> subscriber, calls |-> <<>>]
      ELSE LET ifs == PushInterface(interfaces, ip.value)
           IN  IF ~locked
               THEN [ret |-> "ERROR", log |-> LockFailedMsg, handles |-> handles,
                     interfaces |-> ifs, claimed |-> clm,
                     subscriber |-> subscriber, calls |-> <<>>]
               ELSE LET a == AcquireHandles(jp.value, ifs, handles, clm)
                    IN  [ret |-> IF a.ok THEN "SUCCESS" ELSE "ERROR",
                         log |-> a.log, handles |-> a.handles,
                         interfaces |-> ifs, claimed |-> a.claimed,
                         subscriber |-> IF a.ok THEN n ELSE subscriber,
                         calls |-> a.calls]

\* lines 46-59: "interface_name" is read only once "joints" was found
ParamsRead(jp) == IF jp.set THEN InterfaceParams ELSE {InterfaceNotSet}

\* line 76: resource_manager_.lock() is reached only with both parameters in
\* order; it finds the weak_ptr alive or expired, and an expired one stays so
LockOutcomes(jp, ip, alive) ==
  IF alive /\ ParameterError(jp, ip) = NoLog THEN BOOLEAN ELSE {alive}

\* The lifecycle calls on_configure in the unconfigured state; an ERROR leaves
\* the controller unconfigured.  The weak_ptr to the resource manager may have
\* expired before the call, and never comes back.
on_configure ==
  /\ lifecycle = "unconfigured"
  /\ configures < MaxConfigures
  /\ \E jp \in JointsParams :
     \E ip \in ParamsRead(jp) :
     \E locked \in LockOutcomes(jp, ip, resource_manager_) :
       LET r == ConfigureOutcome(jp, ip, locked, joint_handles_, interfaces_,
                                 claimed, joints_command_subscriber_,
                                 configures + 1)
       IN  /\ joints_param' = jp
           /\ interface_param' = ip
           /\ resource_manager_' = locked
           /\ joint_handles_' = r.handles
           /\ interfaces_' = r.interfaces
           /\ claimed' = r.claimed
           /\ joints_command_subscriber_' = r.subscriber
           /\ rm_calls' = r.calls
           /\ ret' = r.ret
           /\ log_msg' = r.log
           /\ lifecycle' = IF r.ret = "SUCCESS" THEN "inactive" ELSE "unconfigured"
           /\ joint_names' = IF r.ret = "SUCCESS" THEN jp.value ELSE joint_names
           /\ interface_name' = IF r.ret = "SUCCESS" THEN ip.value ELSE interface_name
  /\ configures' = configures + 1
  /\ op' = "on_configure"
  /\ NoUpdateCall
  /\ UNCHANGED <<rt_command_ptr_, mailbox_history, cycle_history>>

----------------------------------------------------------------------------
(* on_activate, on_deactivate, cleanup *)

\* lines 126-130
on_activate ==
  /\ lifecycle = "inactive"
  /\ lifecycle' = "active"
  /\ op' = "on_activate"
  /\ ret' = "SUCCESS"
  /\ log_msg' = NoLog
  /\ NoConfigureCall
  /\ NoUpdateCall
  /\ UNCHANGED <<controller_vars, registry_vars, configured_vars,
                 mailbox_history, cycle_history>>

\* a variant that drops the handles when the controller is deactivated
on_deactivate_ClearsHandles ==
  /\ lifecycle = "active"
  /\ lifecycle' = "inactive"
  /\ joint_handles_' = <<>>
  /\ op' = "on_deactivate"
  /\ ret' = "SUCCESS"
  /\ log_msg' = NoLog
  /\ NoConfigureCall
  /\ NoUpdateCall
  /\ UNCHANGED <<interfaces_, rt_command_ptr_, joints_command_subscriber_,
                 registry_vars, configured_vars, mailbox_history,
                 cycle_history>>

\* lines 132-136
on_deactivate ==
  /\ lifecycle = "active"
  /\ lifecycle' = "inactive"
  /\ op' = "on_deactivate"
  /\ ret' = "SUCCESS"
  /\ log_msg' = NoLog
  /\ NoConfigureCall
  /\ NoUpdateCall
  /\ UNCHANGED <<controller_vars, registry_vars, configured_vars,
                 mailbox_history, cycle_history>>

\* The class overrides no on_cleanup: the lifecycle's cleanup transition takes
\* the controller back to unconfigured and touches none of its members.
on_cleanup ==
  /\ lifecycle = "inactive"
  /\ lifecycle' = "unconfigured"
  /\ op' = "on_cleanup"
  /\ ret' = "SUCCESS"
  /\ log_msg' = NoLog
  /\ NoConfigureCall
  /\ NoUpdateCall
  /\ UNCHANGED <<controller_vars, registry_vars, configured_vars,
                 mailbox_history, cycle_history>>

----------------------------------------------------------------------------
(* The mailbox (realtime buffer, by its contract) and the subscription *)

\* writeFromNonRT: the slot is replaced
writeFromNonRT(slot, msg) == msg

\* readFromRT: the most recent completed write, the slot keeps it
readFromRT(slot) == slot

\* the number of unread writes after one more, counted up to two
OneMore(n) == IF n < 2 THEN n + 1 ELSE n

\* a variant that keeps a message that is already in the mailbox
commands_callback_KeepFirst ==
  /\ joints_command_subscriber_ # 0
  /\ \E msg \in Messages :
       /\ rt_command_ptr_' =
            IF rt_command_ptr_.valid THEN rt_command_ptr_
            ELSE writeFromNonRT(rt_command_ptr_, msg)
       /\ last_written' = msg
       /\ overwritten' = (unread > 0 /\ last_written # msg)
  /\ unread' = OneMore(unread)
  /\ received' = TRUE
  /\ op' = "commands_callback"
  /\ ret' = "NONE"
  /\ log_msg' = NoLog
  /\ NoConfigureCall
  /\ NoUpdateCall
  /\ UNCHANGED <<lifecycle, joint_handles_, interfaces_,
                 joints_command_subscriber_, registry_vars, configured_vars,
                 cycle_history>>

\* lines 115-118: the subscription callback, once a subscription exists
commands_callback ==
  /\ joints_command_subscriber_ # 0
  /\ \E msg \in Messages :
       /\ rt_command_ptr_' = writeFromNonRT(rt_command_ptr_, msg)
       /\ last_written' = msg
       /\ overwritten' = (unread > 0 /\ last_written # msg)
  /\ unread' = OneMore(unread)
  /\ received' = TRUE
  /\ op' = "commands_callback"
  /\ ret' = "NONE"
  /\ log_msg' = NoLog
  /\ NoConfigureCall
  /\ NoUpdateCall
  /\ UNCHANGED <<lifecycle, joint_handles_, interfaces_,
                 joints_command_subscriber_, registry_vars, configured_vars,
                 cycle_history>>

----------------------------------------------------------------------------
(* update *)

SetCommand(handle, data, interfaces) ==
  [handle |-> handle, data |-> data, interfaces |-> interfaces]

\* lines 159-164: one set_command per index, in increasing index order
ForwardLoop(cmd, handles, interfaces) ==
  [i \in 1..Len(cmd.data) |-> SetCommand(handles[i], <<cmd.data[i]>>, interfaces)]

\* a variant without the test for "no command received yet"
UpdateOutcome_NoNullCheck(cmd, handles, interfaces) ==
  IF Len(cmd.data) # Len(handles)
  THEN [ret |-> "ERROR", log |-> SizeMismatchMsg, calls |-> <<>>]
  ELSE [ret |-> "SUCCESS", log |-> NoLog,
        calls |-> ForwardLoop(cmd, handles, interfaces)]

\* lines 140-166: what update() returns, logs and writes for what it read
UpdateOutcome(cmd, handles, interfaces) ==
  IF ~cmd.valid
  THEN [ret |-> "SUCCESS", log |-> NoLog, calls |-> <<>>]
  ELSE IF Len(cmd.data) # Len(handles)
  THEN [ret |-> "ERROR", log |-> SizeMismatchMsg, calls |-> <<>>]
  ELSE [ret |-> "SUCCESS", log |-> NoLog,
        calls |-> ForwardLoop(cmd, handles, interfaces)]

\* what the hardware may answer to n set_command calls
SetCommandResults(n) == [1..n -> {"OK", "ERROR"}]

\* a variant that gives its handles away as it writes them
update_ConsumesHandles ==
  /\ joint_commands' = readFromRT(rt_command_ptr_)
  /\ LET r == UpdateOutcome(joint_commands', joint_handles_, interfaces_)
     IN  /\ ret' = r.ret
         /\ log_msg' = r.log
         /\ set_command_calls' = r.calls
         /\ set_command_results' \in SetCommandResults(Len(r.calls))
         /\ mismatched' = (mismatched \/ r.ret = "ERROR")
         /\ joint_handles_' = IF r.calls = <<>> THEN joint_handles_ ELSE <<>>
  /\ seen' = [unread |-> unread, overwritten |-> overwritten]
  /\ unread' = 0
  /\ overwritten' = FALSE
  /\ op' = "update"
  /\ NoConfigureCall
  /\ UNCHANGED <<lifecycle, interfaces_, rt_command_ptr_,
                 joints_command_subscriber_, registry_vars, configured_vars,
                 received, last_written>>

\* the calls made when the loop stops at the first set_command that fails
UpToFirstError(calls, results) ==
  LET bad == {i \in 1..Len(calls) : results[i] = "ERROR"}
  IN  IF bad = {} THEN calls
      ELSE SubSeq(calls, 1, CHOOSE i \in bad : \A j \in bad : i <= j)

\* a variant that stops at the first set_command that fails and reports it
update_AbortsOnFailure ==
  /\ joint_commands' = readFromRT(rt_command_ptr_)
  /\ LET r == UpdateOutcome(joint_commands', joint_handles_, interfaces_)
     IN  \E res \in SetCommandResults(Len(r.calls)) :
           LET made == UpToFirstError(r.calls, res)
               failed == Len(made) > 0 /\ res[Len(made)] = "ERROR"
           IN  /\ ret' = IF failed THEN "ERROR" ELSE r.ret
               /\ log_msg' = r.log
               /\ set_command_calls' = made
               /\ set_command_results' = SubSeq(res, 1, Len(made))
               /\ mismatched' = (mismatched \/ r.ret = "ERROR")
  /\ seen' = [unread |-> unread, overwritten |-> overwritten]
  /\ unread' = 0
  /\ overwritten' = FALSE
  /\ op' = "update"
  /\ NoConfigureCall
  /\ UNCHANGED <<lifecycle, controller_vars, registry_vars, configured_vars,
                 received, last_written>>

\* a variant whose read takes the message out of the mailbox
update_ConsumesMessage ==
  /\ joint_commands' = readFromRT(rt_command_ptr_)
  /\ rt_command_ptr_' = NullMsg
  /\ LET r == UpdateOutcome(joint_commands', joint_handles_, interfaces_)
     IN  /\ ret' = r.ret
         /\ log_msg' = r.log
         /\ set_command_calls' = r.calls
         /\ set_command_results' \in SetCommandResults(Len(r.calls))
         /\ mismatched' = (mismatched \/ r.ret = "ERROR")
  /\ seen' = [unread |-> unread, overwritten |-> overwritten]
  /\ unread' = 0
  /\ overwritten' = FALSE
  /\ op' = "update"
  /\ NoConfigureCall
  /\ UNCHANGED <<lifecycle, joint_handles_, interfaces_,
                 joints_command_subscriber_, registry_vars, configured_vars,
                 received, last_written>>

\* lines 138-167: the control cycle; it has no guard on the lifecycle state,
\* and line 163 drops what set_command returns
update ==
  /\ joint_commands' = readFromRT(rt_command_ptr_)
  /\ LET r == UpdateOutcome(joint_commands', joint_handles_, interfaces_)
     IN  /\ ret' = r.ret
         /\ log_msg' = r.log
         /\ set_command_calls' = r.calls
         /\ set_command_results' \in SetCommandResults(Len(r.calls))
         /\ mismatched' = (mismatched \/ r.ret = "ERROR")
  /\ seen' = [unread |-> unread, overwritten |-> overwritten]
  /\ unread' = 0
  /\ overwritten' = FALSE
  /\ op' = "update"
  /\ NoConfigureCall
  /\ UNCHANGED <<lifecycle, controller_vars, registry_vars, configured_vars,
                 received, last_written>>

----------------------------------------------------------------------------
Next ==
  \/ on_configure
  \/ on_activate
  \/ on_deactivate
  \/ on_cleanup
  \/ commands_callback
  \/ update


Spec == Init /\ [][Next]_vars

----------------------------------------------------------------------------
(* Properties *)

ConfigureStep == op' = "on_configure" /\ configures' = configures + 1

\* C1: whenever on_configure returns ERROR because a joint is not registered
\* or a claim is refused, joint_handles_ is empty immediately afterwards.
C1_ClaimAtomicity ==
  (op = "on_configure" /\ ret = "ERROR"
     /\ log_msg \in {NotRegisteredMsg, ClaimFailedMsg})
    => joint_handles_ = <<>>

\* C2: after every on_configure that returns SUCCESS, joint_handles_ holds as
\* many handles as that call's joint list has names.
C2_HandleCount ==
  (op = "on_configure" /\ ret = "SUCCESS")
    => Len(joint_handles_) = Len(joints_param.value)

\* C3: after every on_configure that returns SUCCESS, joint_handles_[i] is the
\* handle the registry returned for the i-th joint name of that call.
C3_IndexAlignment ==
  (op = "on_configure" /\ ret = "SUCCESS")
    => \A i \in 1..Len(joints_param.value) :
         /\ i <= Len(joint_handles_)
         /\ joint_handles_[i] = JointHandle(joints_param.value[i])

\* the interface names of a list
Names(interfaces) == {interfaces[k] : k \in 1..Len(interfaces)}

\* C4: an update of a configured controller that reads a message as long as
\* joint_handles_ returns SUCCESS after exactly one set_command per handle, in
\* index order, with the value list <<message[i]>> and the configured
\* interface (and no other).
C4_PassThrough ==
  (op = "update" /\ lifecycle # "unconfigured" /\ joint_commands.valid
     /\ Len(joint_commands.data) = Len(joint_handles_))
    => /\ ret = "SUCCESS"
       /\ Len(set_command_calls) = Len(joint_handles_)
       /\ \A i \in 1..Len(set_command_calls) :
            /\ set_command_calls[i].handle = joint_handles_[i]
            /\ set_command_calls[i].data = <<joint_commands.data[i]>>
            /\ Names(set_command_calls[i].interfaces) = {interface_name}

\* C5: an update of a configured controller that reads a message returns
\* ERROR without any set_command if the message length differs from the
\* configured joint count, and does not reject a message of that length.
C5_SizeValidation ==
  (op = "update" /\ lifecycle # "unconfigured" /\ joint_commands.valid)
    => /\ Len(joint_commands.data) # Len(joint_names)
            => (ret = "ERROR" /\ set_command_calls = <<>>)
       /\ Len(joint_commands.data) = Len(joint_names) => ret = "SUCCESS"

\* C6: an update made while no message has ever been written to the mailbox
\* returns SUCCESS and calls set_command on no handle, in every lifecycle
\* state and whatever joint_handles_ holds.
C6_NoCommandNoOp ==
  (op = "update" /\ ~received)
    => (ret = "SUCCESS" /\ set_command_calls = <<>>)

C6_Witness ==
  /\ op = "update"
  /\ ~received
  /\ lifecycle = "active"
  /\ Len(joint_handles_) = 2
  /\ ret = "SUCCESS"

MissingConfiguration(jp, ip) ==
  \/ ~jp.set
  \/ jp.value = <<>>
  \/ ~ip.set
  \/ ip.value = ""

\* every joint of the list is registered with the interface and unclaimed
AllClaimable(names, interface, clm) ==
  \A i \in 1..Len(names) :
     /\ interface \in RegisteredInterfaces(names[i])
     /\ names[i] \notin clm

\* C8: an on_configure that follows one that failed on a joint the registry
\* does not know, and whose joints are all available and claimable, returns SUCCESS and
\* leaves one handle per joint of its list.
C8_ReconfigureAfterFailure ==
  [][(/\ op = "on_configure"
      /\ log_msg = NotRegisteredMsg
      /\ RegisteredInterfaces(rm_calls[Len(rm_calls)].joint) = {}
      /\ ConfigureStep
      /\ ~MissingConfiguration(joints_param', interface_param')
      /\ resource_manager_'
      /\ AllClaimable(joints_param'.value, interface_param'.value, claimed))
       => /\ ret' = "SUCCESS"
          /\ Len(joint_handles_') = Len(joints_param'.value)]_vars

\* C9: an on_configure with 'joints' absent or empty, or 'interface_name'
\* absent or empty, returns ERROR, calls the registry not once and leaves
\* joint_handles_, interfaces_, the mailbox, the subscription and the
\* registry's claims as they were.
C9_MissingConfiguration ==
  [][(ConfigureStep /\ MissingConfiguration(joints_param', interface_param'))
       => /\ ret' = "ERROR"
          /\ rm_calls' = <<>>
          /\ UNCHANGED <<joint_handles_, interfaces_, rt_command_ptr_,
                         joints_command_subscriber_, claimed>>]_vars

C9_Witness ==
  /\ op = "on_configure"
  /\ ret = "ERROR"
  /\ log_msg = InterfaceEmptyMsg
  /\ joints_param.value # <<>>
  /\ joint_handles_ # <<>>
  /\ interfaces_ # <<>>
  /\ rt_command_ptr_.valid

\* the i-th registry call of the attempt is the check of the i-th joint
ChecksEveryJoint(calls, names) ==
  /\ Len(calls) >= Len(names)
  /\ \A k \in 1..Len(names) :
       /\ calls[k].call = "check"
       /\ calls[k].joint = names[k]
       /\ calls[k].ok

\* C10: within one on_configure, every claim call comes after a successful
\* check of every joint of the list; and if some joint is not registered with
\* the interface, the call returns ERROR without a claim call and the
\* registry's claimed joints are as before.
C10_CheckBeforeClaim ==
  [][ConfigureStep
       => /\ \A i \in 1..Len(rm_calls') :
               rm_calls'[i].call = "claim"
                 => /\ ChecksEveryJoint(rm_calls', joints_param'.value)
                    /\ i > Len(joints_param'.value)
          /\ (/\ ~MissingConfiguration(joints_param', interface_param')
              /\ \E k \in 1..Len(joints_param'.value) :
                   interface_param'.value
                     \notin RegisteredInterfaces(joints_param'.value[k]))
               => /\ ret' = "ERROR"
                  /\ claimed' = claimed
                  /\ \A i \in 1..Len(rm_calls') : rm_calls'[i].call = "check"]_vars

C10_Witness ==
  /\ op = "on_configure"
  /\ ret = "ERROR"
  /\ log_msg = NotRegisteredMsg
  /\ Len(rm_calls) = 2
  /\ rm_calls[1].ok
  /\ ~rm_calls[2].ok
  /\ claimed # {}

----------------------------------------------------------------------------
\* C11: on_activate and on_deactivate return SUCCESS and leave
\* joint_handles_, interfaces_, the mailbox, the subscription and the
\* registry's claims as they were, so that update() returns and writes the
\* same after the transition as it would have before it.
C11_ActivateDeactivateFrame ==
  [][op' \in {"on_activate", "on_deactivate"}
       => /\ ret' = "SUCCESS"
          /\ UNCHANGED <<joint_handles_, interfaces_, rt_command_ptr_,
                         joints_command_subscriber_, claimed>>
          /\ UpdateOutcome(readFromRT(rt_command_ptr_'), joint_handles_',
                           interfaces_')
               = UpdateOutcome(readFromRT(rt_command_ptr_), joint_handles_,
                               interfaces_)]_vars

C11_Witness ==
  /\ op = "on_deactivate"
  /\ ret = "SUCCESS"
  /\ lifecycle = "inactive"
  /\ joint_handles_ # <<>>
  /\ rt_command_ptr_.valid
  /\ Len(rt_command_ptr_.data) = Len(joint_handles_)
  /\ claimed # {}

----------------------------------------------------------------------------
\* C12: once an update() has returned ERROR, an update of the configured
\* controller that reads a message as long as the configured joint list
\* returns SUCCESS and writes every handle: no error is latched.
C12_MismatchNotLatched ==
  [][(/\ mismatched
      /\ op' = "update"
      /\ lifecycle # "unconfigured"
      /\ joint_commands'.valid
      /\ Len(joint_commands'.data) = Len(joint_names))
       => /\ ret' = "SUCCESS"
          /\ Len(set_command_calls') = Len(joint_handles_)]_vars

\* C13: after every on_configure that returns SUCCESS, interfaces_ names one
\* interface, the one that call read from 'interface_name'.
C13_SingleInterface ==
  (op = "on_configure" /\ ret = "SUCCESS")
    => Names(interfaces_) = {interface_param.value}

\* C14: once the controller is cleaned up, joint_handles_ is empty, and an
\* update of the unconfigured controller calls set_command on no handle.
C14_NoHandlesAfterCleanup ==
  /\ op = "on_cleanup" => joint_handles_ = <<>>
  /\ (op = "update" /\ lifecycle = "unconfigured") => set_command_calls = <<>>

\* C15: joint_handles_ changes in on_configure only, and every update(),
\* whether it finds no message, a wrongly sized one or one it forwards, leaves
\* joint_handles_ and interfaces_ as they were.
C15_UpdateFrame ==
  [][/\ op' = "update" => UNCHANGED <<joint_handles_, interfaces_>>
     /\ joint_handles_' # joint_handles_ => op' = "on_configure"]_vars

C15_Witness ==
  /\ op = "update"
  /\ ret = "SUCCESS"
  /\ Len(set_command_calls) = 2
  /\ Len(joint_handles_) = 2
  /\ interfaces_ # <<>>

\* C16: an on_configure that fails at a claim leaves the registry's claimed
\* joints as they were before the call: what it claimed itself is released.
C16_ClaimsReleased ==
  [][(ConfigureStep /\ ret' = "ERROR" /\ log_msg' = ClaimFailedMsg)
       => claimed' = claimed]_vars

\* C17: an update() that reads a message as long as joint_handles_ calls
\* set_command on every handle and returns SUCCESS, whatever the set_command
\* calls return.
C17_WriteFailuresIgnored ==
  (op = "update" /\ joint_commands.valid
     /\ Len(joint_commands.data) = Len(joint_handles_))
    => /\ ret = "SUCCESS"
       /\ Len(set_command_calls) = Len(joint_handles_)
       /\ Len(set_command_results) = Len(set_command_calls)
       /\ \A i \in 1..Len(set_command_calls) :
            set_command_calls[i].handle = joint_handles_[i]

C17_Witness ==
  /\ op = "update"
  /\ ret = "SUCCESS"
  /\ Len(set_command_calls) = 2
  /\ set_command_results = <<"ERROR", "OK">>

\* no on_configure has returned SUCCESS so far
NeverConfigured == interface_name = "" /\ joint_names = <<>>

\* C18: as long as no on_configure has returned SUCCESS there is no
\* subscription, no message was written to the mailbox, and every update()
\* returns SUCCESS without a set_command call.
C18_NoEndpointBeforeConfigure ==
  NeverConfigured
    => /\ joints_command_subscriber_ = 0
       /\ ~received
       /\ ~rt_command_ptr_.valid
       /\ op = "update" => (ret = "SUCCESS" /\ set_command_calls = <<>>)

C18_Witness ==
  /\ NeverConfigured
  /\ configures = 2
  /\ interfaces_ # <<>>
  /\ op = "update"
  /\ ret = "SUCCESS"

\* C19: an update() that directly follows an update() reads the same message,
\* returns the same status and makes the same set_command calls; and a
\* mailbox that holds a message never becomes empty again.
C19_ReadDoesNotConsume ==
  [][/\ (op = "update" /\ op' = "update")
          => /\ joint_commands' = joint_commands
             /\ ret' = ret
             /\ set_command_calls' = set_command_calls
     /\ rt_command_ptr_.valid => rt_command_ptr_'.valid]_vars

C19_Witness ==
  /\ op = "update"
  /\ seen.unread = 0
  /\ joint_commands.valid
  /\ set_command_calls # <<>>
  /\ configures = 2

====
